---- MODULE Spec2Model ----
(* Model of src/main.py: the FOLIO "delete permanent location" batch tool. *)
(* main() reads barcodes from a tab-separated input, looks each one up     *)
(* with a GET, pops the permanentLocation field of the record found and    *)
(* PUTs the record back, writing one output row per input row.             *)
(*                                                                         *)
(* Python values are modelled as tagged records: None is [tag |-> "None"], *)
(* a dict carries its key set in .keys (a field that is not in .keys holds *)
(* a fixed default), a list carries its elements in .items.                *)
EXTENDS Integers, Sequences, FiniteSets, TLC

(***************************************************************************)
(* Bounds of the model                                                     *)
(***************************************************************************)
MaxRows  == 2   \* rows in the input file
MaxItems == 2   \* records in the longest "items" page of a GET response
MaxTotal == 2   \* the "totalRecords" of a response that reports several matches
MaxCalls == 2   \* successive delete_perm_location calls on one record

(***************************************************************************)
(* Python values                                                           *)
(***************************************************************************)
PyNone == [tag |-> "None"]

\* A permanentLocation value that is a JSON object with the given keys.
LocDict(keys, name) == [tag |-> "dict", keys |-> keys, name |-> name]

\* An item record: a dict over the keys id, permanentLocation and status.
ItemDict(keys, id, loc, status) ==
  [tag |-> "dict", keys |-> keys,
   id |-> IF "id" \in keys THEN id ELSE "",
   permanentLocation |-> IF "permanentLocation" \in keys THEN loc ELSE PyNone,
   status |-> IF "status" \in keys THEN status ELSE ""]

PyList(items) == [tag |-> "list", items |-> items]

\* Python truthiness, as used by "if not item" / "if not old_loc" / "if not msg".
Truthy(v) ==
  CASE v.tag = "None" -> FALSE
    [] v.tag = "dict" -> v.keys # {}
    [] v.tag = "list" -> v.items # <<>>

StrTruthy(s) == s # ""

(***************************************************************************)
(* Inputs: item records, backend responses, input rows                     *)
(***************************************************************************)
Fields      == {"id", "permanentLocation", "status"}
OtherFields == Fields \ {"permanentLocation"}
ItemIds     == {"i1", "i2"}
LocNames    == {"Main Library", "Annex"}
Statuses    == {"Available", "Checked out"}

EmptyLoc  == LocDict({}, "")              \* "permanentLocation": {}
NoNameLoc == LocDict({"id"}, "")          \* a location object without "name"
NamedLoc(name) == LocDict({"id", "name"}, name)

LocValues == {PyNone, EmptyLoc, NoNameLoc} \cup {NamedLoc(nm) : nm \in LocNames}

\* Every item record over the three fields.
Records ==
  {ItemDict(ks, id, loc, st) :
     ks \in SUBSET Fields, id \in ItemIds, loc \in LocValues, st \in Statuses}

\* The records the modelled backend serves.
Items ==
  { ItemDict(Fields, "i1", NamedLoc("Main Library"), "Available"),
    ItemDict(Fields, "i2", NamedLoc("Annex"), "Checked out"),
    ItemDict(OtherFields, "i2", PyNone, "Available"),
    ItemDict(Fields, "i1", EmptyLoc, "Available"),
    ItemDict(Fields, "i2", NoNameLoc, "Available"),
    ItemDict({"permanentLocation", "status"}, "", NamedLoc("Annex"), "Available") }

SeqUpTo(S, k) == UNION {[1..m -> S] : m \in 0..k}

\* What client.folio_get does: it raises (ok = FALSE) or returns the JSON
\* object {totalRecords, items}.  totalRecords and the length of the items
\* page are independent.
GetFailed == [ok |-> FALSE, totalRecords |-> 0, items |-> <<>>]
\* The pages of a response: the loops look at the first record only, so the
\* records after it are all the same one.  A page holds no record, one
\* record or MaxItems records; totalRecords is 0, 1 or MaxTotal.
Filler == ItemDict(Fields, "i2", NamedLoc("Annex"), "Checked out")
PageLens == {0, 1, MaxItems}
Totals   == {0, 1, MaxTotal}
Pages ==
  {<<a>> \o [k \in 1..(m - 1) |-> Filler] : a \in Items, m \in PageLens \ {0}}
    \cup {<<>>}
GetOutcomes ==
  {GetFailed} \cup [ok : {TRUE}, totalRecords : Totals, items : Pages]

\* What requests.put does: it raises (ok = FALSE) or returns a response with
\* an HTTP status code and a body text.
StatusCodes == {204, 500}
BodyTexts   == {"", "Internal Server Error"}
PutFailed   == [ok |-> FALSE, status_code |-> 0, text |-> ""]
PutOutcomes == {PutFailed} \cup [ok : {TRUE}, status_code : StatusCodes, text : BodyTexts]

\* Rows of the csv reader: a blank line is the empty row; columns after the
\* first are ignored.
RowValues == {<<>>, <<"B001">>, <<"B002", "note">>}
InputFiles == SeqUpTo(RowValues, MaxRows)

VARIABLES
  loop,         \* the row loop that is run
  in_csv,       \* the rows of the input file
  out_csv,      \* the rows written to the output file
  i,            \* number of rows taken from in_csv
  pc,           \* "loop", "done" (normal return) or "raised" (exception)
  log,          \* the operations performed, as <<op, row index>>
  got,          \* outcome of the GET of the last row
  put,          \* the PUT request of the last row and its outcome
  resolved,     \* what the resolver returned in the last row
  barcode, status_code, msg, n, item, old_loc,   \* locals of the loop body
  s_orig, s_prev, s_rec, s_ret, s_calls    \* the stripper called on its own

loopVars  == <<loop, in_csv, out_csv, i, pc, log, got, put, resolved,
               barcode, status_code, msg, n, item, old_loc>>
stripVars == <<s_orig, s_prev, s_rec, s_ret, s_calls>>
vars == <<loopVars, stripVars>>


(***************************************************************************)
(* get_item_by_barcode (lines 79-100)                                      *)
(***************************************************************************)
\* g is the outcome of client.folio_get.  The result is the returned value,
\* or raised = TRUE when the call raises (folio_get fails, or res["items"][0]
\* on an empty page).
get_item_by_barcode(g) ==
  IF ~g.ok THEN [raised |-> TRUE, value |-> PyNone]
  ELSE IF g.totalRecords = 0 THEN [raised |-> FALSE, value |-> PyNone]
  ELSE IF g.items = <<>> THEN [raised |-> TRUE, value |-> PyNone]
  ELSE [raised |-> FALSE, value |-> g.items[1]]

(***************************************************************************)
(* get_item_by_barcode_safe (lines 103-136)                                *)
(***************************************************************************)
\* A resolver that counts the records of the returned page.
get_item_by_barcode_safe_len(g) ==
  IF ~g.ok THEN [raised |-> TRUE, n |-> 0, ret_obj |-> PyNone]
  ELSE LET items == g.items
           cnt   == Len(g.items)
       IN IF cnt = 0 THEN [raised |-> FALSE, n |-> cnt, ret_obj |-> PyNone]
          ELSE IF cnt = 1
            THEN [raised |-> FALSE, n |-> cnt, ret_obj |-> items[1]]
            ELSE [raised |-> FALSE, n |-> cnt, ret_obj |-> PyList(items)]

\* A resolver that picks the first record whenever there is a match.
get_item_by_barcode_safe_first(g) ==
  IF ~g.ok THEN [raised |-> TRUE, n |-> 0, ret_obj |-> PyNone]
  ELSE LET items == g.items
           cnt   == g.totalRecords
       IN IF cnt = 0 THEN [raised |-> FALSE, n |-> cnt, ret_obj |-> PyNone]
          ELSE IF items = <<>>
            THEN [raised |-> TRUE, n |-> cnt, ret_obj |-> PyNone]
            ELSE [raised |-> FALSE, n |-> 1, ret_obj |-> items[1]]

get_item_by_barcode_safe(g) ==
  IF ~g.ok THEN [raised |-> TRUE, n |-> 0, ret_obj |-> PyNone]
  ELSE LET items == g.items
           cnt   == g.totalRecords
       IN IF cnt = 0 THEN [raised |-> FALSE, n |-> cnt, ret_obj |-> PyNone]
          ELSE IF cnt = 1
            THEN IF items = <<>>
                   THEN [raised |-> TRUE, n |-> cnt, ret_obj |-> PyNone]
                   ELSE [raised |-> FALSE, n |-> cnt, ret_obj |-> items[1]]
            ELSE [raised |-> FALSE, n |-> cnt, ret_obj |-> PyList(items)]

(***************************************************************************)
(* delete_perm_location (lines 139-150): rec.pop("permanentLocation", None)*)
(***************************************************************************)
\* A stripper that also drops the status field.
delete_perm_location_wide(rec) ==
  [ret |-> IF "permanentLocation" \in rec.keys THEN rec.permanentLocation ELSE PyNone,
   rec |-> [rec EXCEPT !.keys = @ \ {"permanentLocation", "status"},
                       !.permanentLocation = PyNone, !.status = ""]]

\* ret is the value returned, rec the record after the call.
delete_perm_location(rec) ==
  [ret |-> IF "permanentLocation" \in rec.keys THEN rec.permanentLocation ELSE PyNone,
   rec |-> [rec EXCEPT !.keys = @ \ {"permanentLocation"},
                       !.permanentLocation = PyNone]]

(***************************************************************************)
(* put_item (lines 153-166)                                                *)
(***************************************************************************)
NoPut == [sent |-> FALSE, url_id |-> "", body |-> PyNone,
          ok |-> FALSE, status_code |-> 0, text |-> ""]

\* A put_item that reports no status code.
put_item_nostatus(rec, p) ==
  IF "id" \notin rec.keys THEN [raised |-> TRUE, req |-> NoPut]
  ELSE [raised |-> ~p.ok,
        req |-> [sent |-> TRUE, url_id |-> rec.id, body |-> rec,
                 ok |-> p.ok, status_code |-> 0, text |-> p.text]]

\* A put_item that sends the record without its status field.
put_item_partial(rec, p) ==
  IF "id" \notin rec.keys THEN [raised |-> TRUE, req |-> NoPut]
  ELSE [raised |-> ~p.ok,
        req |-> [sent |-> TRUE, url_id |-> rec.id,
                 body |-> [rec EXCEPT !.keys = @ \ {"status"}, !.status = ""],
                 ok |-> p.ok, status_code |-> p.status_code, text |-> p.text]]

\* p is the outcome of requests.put.  item['id'] raises KeyError before any
\* request is made; otherwise the request goes out to /inventory/items/<id>
\* with json.dumps(item) as body, and the call returns (status_code, text)
\* unless requests.put raises.
put_item(rec, p) ==
  IF "id" \notin rec.keys THEN [raised |-> TRUE, req |-> NoPut]
  ELSE [raised |-> ~p.ok,
        req |-> [sent |-> TRUE, url_id |-> rec.id, body |-> rec,
                 ok |-> p.ok, status_code |-> p.status_code, text |-> p.text]]

(***************************************************************************)
(* Messages of the row loops                                               *)
(***************************************************************************)
\* A no-match message that leaves the barcode out.
NoMatchMsg_nobarcode(b) == "No item matching barcode"

NoMatchMsg(b)     == "No item matching barcode " \o b                \* lines 184, 214
ManyMatchMsg(k, b) == ToString(k) \o " items matched barcode " \o b  \* line 216
NoLocationMsg     == "Item had no permanentLocation"                 \* lines 188, 220

\* A success message that is the bare display name.
OldLocationMsg_bare(loc) == loc.name

OldLocationMsg(loc) == "old location: " \o loc.name                  \* line 192

HadNoLocation(loc) == ~Truthy(loc)                                   \* lines 187, 219

(***************************************************************************)
(* The body of one iteration of the row loops                              *)
(***************************************************************************)
\* csv.writer.writerow placed at the head of the file.
writerow_front(out, r) == <<r>> \o out

writerow(out, r) == Append(out, r)                                   \* lines 194, 224

Unresolved == [returned |-> FALSE]

\* The locals and the environment as one iteration finds them: no request
\* made yet, nothing raised.
Entry ==
  [raised |-> FALSE, ops |-> <<>>, got |-> GetFailed, put |-> NoPut,
   resolved |-> Unresolved,
   barcode |-> barcode, status_code |-> status_code, msg |-> msg,
   n |-> n, item |-> item, old_loc |-> old_loc]

Raise(l)       == [l EXCEPT !.raised = TRUE]
Did(l, op)     == [l EXCEPT !.ops = Append(@, op)]
Written(l, m)  == [Did(l, "WRITE") EXCEPT !.msg = m]

\* The step shared by both loops once a record with a truthy old_loc is in
\* hand (lines 190-192, 222): d is the stripper's result, fallback tells
\* whether an empty response body is replaced by the old location's name.
UpdateStep(l, d, p, fallback) ==
  LET u  == put_item(d.rec, p)
      l1 == IF u.req.sent THEN Did([l EXCEPT !.put = u.req], "PUT") ELSE l
  IN IF u.raised THEN Raise(l1)
     ELSE LET l2 == [l1 EXCEPT !.status_code = u.req.status_code,
                               !.msg = u.req.text]
          IN IF ~fallback \/ StrTruthy(l2.msg) THEN Did(l2, "WRITE")
             ELSE IF "name" \notin d.ret.keys THEN Raise(l2)
             ELSE Written(l2, OldLocationMsg(d.ret))

\* Lines 185-192 and 217-222: strip the record, then update it or report
\* that it had no location.
StripStep(l, rec, p, fallback) ==
  LET d  == delete_perm_location(rec)
      l1 == Did([l EXCEPT !.item = d.rec, !.old_loc = d.ret], "STRIP")
  IN IF HadNoLocation(d.ret) THEN Written(l1, NoLocationMsg)
     ELSE UpdateStep(l1, d, p, fallback)

\* Lines 180-194.
delete_location_loop_body(l, row, g, p) ==
  IF row = <<>> THEN Raise(l)
  ELSE LET l1 == Did([l EXCEPT !.barcode = row[1], !.status_code = 0,
                               !.got = g], "GET")
           r  == get_item_by_barcode(g)
       IN IF r.raised THEN Raise(l1)
          ELSE LET l2 == [l1 EXCEPT !.item = r.value,
                                    !.resolved = [returned |-> TRUE,
                                                  ret_obj |-> r.value]]
               IN IF ~Truthy(r.value) THEN Written(l2, NoMatchMsg(row[1]))
                  ELSE StripStep(l2, r.value, p, TRUE)

\* Lines 209-224.
delete_location_loop_safe_body(l, row, g, p) ==
  IF row = <<>> THEN Raise(l)
  ELSE LET l1 == Did([l EXCEPT !.barcode = row[1], !.status_code = 0,
                               !.msg = "", !.got = g], "GET")
           r  == get_item_by_barcode_safe(g)
       IN IF r.raised THEN Raise(l1)
          ELSE LET l2 == [l1 EXCEPT !.n = r.n, !.item = r.ret_obj,
                                    !.resolved = [returned |-> TRUE, n |-> r.n,
                                                  ret_obj |-> r.ret_obj]]
               IN IF r.n = 0 THEN Written(l2, NoMatchMsg(row[1]))
                  ELSE IF r.n > 1 THEN Written(l2, ManyMatchMsg(r.n, row[1]))
                  ELSE StripStep(l2, r.ret_obj, p, FALSE)

(***************************************************************************)
(* The program: main() and its row loop                                    *)
(***************************************************************************)
MainLoop == "delete_location_loop"                                   \* line 248
Loops    == {"delete_location_loop", "delete_location_loop_safe"}

Init ==
  /\ loop \in Loops
  /\ in_csv \in InputFiles
  /\ out_csv = <<>>
  /\ i = 0
  /\ pc = "loop"
  /\ log = <<>>
  /\ got = GetFailed
  /\ put = NoPut
  /\ resolved = Unresolved
  /\ barcode = ""
  /\ status_code = 0
  /\ msg = ""
  /\ n = 0
  /\ item = PyNone
  /\ old_loc = PyNone
  /\ s_orig = PyNone /\ s_prev = PyNone /\ s_rec = PyNone
  /\ s_ret = PyNone /\ s_calls = 0

\* An iteration that reports the exception in the row and goes on.
Iterate_catch(b) ==
  /\ i' = i + 1
  /\ log' = log \o [k \in 1..Len(b.ops) |-> <<b.ops[k], i + 1>>]
  /\ got' = b.got
  /\ put' = b.put
  /\ resolved' = b.resolved
  /\ barcode' = b.barcode
  /\ status_code' = b.status_code
  /\ msg' = b.msg
  /\ n' = b.n
  /\ item' = b.item
  /\ old_loc' = b.old_loc
  /\ out_csv' = writerow(out_csv, <<b.barcode, b.status_code,
                                    IF b.raised THEN "error" ELSE b.msg>>)
  /\ pc' = "loop"
  /\ UNCHANGED <<loop, in_csv, stripVars>>

\* The effect of one iteration whose body ended as b: an exception leaves
\* the loop and the program, a normal end writes the row.
Iterate(b) ==
  /\ i' = i + 1
  /\ log' = log \o [k \in 1..Len(b.ops) |-> <<b.ops[k], i + 1>>]
  /\ got' = b.got
  /\ put' = b.put
  /\ resolved' = b.resolved
  /\ barcode' = b.barcode
  /\ status_code' = b.status_code
  /\ msg' = b.msg
  /\ n' = b.n
  /\ item' = b.item
  /\ old_loc' = b.old_loc
  /\ out_csv' = IF b.raised THEN out_csv
                ELSE writerow(out_csv, <<b.barcode, b.status_code, b.msg>>)
  /\ pc' = IF b.raised THEN "raised" ELSE "loop"
  /\ UNCHANGED <<loop, in_csv, stripVars>>

\* requests.put has an outcome only in an iteration that calls it: b is the
\* iteration's end when the call raises.
PutChoices(b) == IF b.put.sent THEN PutOutcomes ELSE {PutFailed}

delete_location_loop ==
  /\ loop = "delete_location_loop"
  /\ pc = "loop"
  /\ i < Len(in_csv)
  /\ \E g \in GetOutcomes :
       \E p \in PutChoices(delete_location_loop_body(Entry, in_csv[i + 1], g, PutFailed)) :
         Iterate(delete_location_loop_body(Entry, in_csv[i + 1], g, p))

delete_location_loop_safe ==
  /\ loop = "delete_location_loop_safe"
  /\ pc = "loop"
  /\ i < Len(in_csv)
  /\ \E g \in GetOutcomes :
       \E p \in PutChoices(delete_location_loop_safe_body(Entry, in_csv[i + 1], g, PutFailed)) :
         Iterate(delete_location_loop_safe_body(Entry, in_csv[i + 1], g, p))

\* The input is exhausted: the loop ends and main returns 0.
LoopEnd ==
  /\ pc = "loop"
  /\ i = Len(in_csv)
  /\ pc' = "done"
  /\ UNCHANGED <<loop, in_csv, out_csv, i, log, got, put, resolved,
                 barcode, status_code, msg, n, item, old_loc, stripVars>>

Next == delete_location_loop \/ delete_location_loop_safe \/ LoopEnd

Spec == Init /\ [][Next]_vars

(***************************************************************************)
(* delete_perm_location called on its own, MaxCalls times on one record    *)
(***************************************************************************)
InitStrip ==
  /\ s_orig \in Records
  /\ s_prev = s_orig
  /\ s_rec = s_orig
  /\ s_ret = PyNone
  /\ s_calls = 0
  /\ loop = MainLoop
  /\ in_csv = <<>>
  /\ out_csv = <<>>
  /\ i = 0
  /\ pc = "loop"
  /\ log = <<>>
  /\ got = GetFailed
  /\ put = NoPut
  /\ resolved = Unresolved
  /\ barcode = ""
  /\ status_code = 0
  /\ msg = ""
  /\ n = 0
  /\ item = PyNone
  /\ old_loc = PyNone

StripCall ==
  /\ s_calls < MaxCalls
  /\ LET d == delete_perm_location(s_rec)
     IN /\ s_prev' = s_rec
        /\ s_rec' = d.rec
        /\ s_ret' = d.ret
  /\ s_calls' = s_calls + 1
  /\ UNCHANGED <<s_orig, loopVars>>

NextStrip == StripCall

SpecStrip == InitStrip /\ [][NextStrip]_vars

(***************************************************************************)
(* Observations on the state                                               *)
(***************************************************************************)
SafeLoop == "delete_location_loop_safe"

\* How many times row k performed op.
Count(op, k) == Cardinality({j \in DOMAIN log : log[j] = <<op, k>>})

Reached    == i >= 1                                  \* an iteration has run
Fetched    == Reached /\ Count("GET", i) = 1 /\ got.ok  \* its GET got a response
Wrote      == Reached /\ Count("WRITE", i) = 1        \* it wrote its output row
LastRow    == out_csv[Len(out_csv)]
Bar        == in_csv[i][1]                            \* column 0 of its input row
OneRecord  == Fetched /\ got.totalRecords = 1 /\ Len(got.items) = 1
FetchedRec == got.items[1]
HasLocation(rec) == "permanentLocation" \in rec.keys
HasNamedLocation(rec) ==
  /\ HasLocation(rec)
  /\ rec.permanentLocation.tag = "dict"
  /\ "name" \in rec.permanentLocation.keys
Rank(op) == CASE op = "GET" -> 1 [] op = "STRIP" -> 2 [] op = "PUT" -> 3 [] op = "WRITE" -> 4

(***************************************************************************)
(* C1                                                                      *)
(***************************************************************************)
\* C1 as stated: in a run of main(), a row whose barcode matches n > 1 items
\* gets the output row (barcode, 0, "<n> items matched barcode <barcode>")
\* and no PUT.
C1_MainSkipsAmbiguous ==
  (loop = MainLoop /\ Fetched /\ got.totalRecords > 1
     /\ Len(got.items) = got.totalRecords)
  => /\ Wrote
     /\ LastRow = <<Bar, 0, ToString(got.totalRecords)
                              \o " items matched barcode " \o Bar>>
     /\ Count("PUT", i) = 0

\* C1 amended: it is delete_location_loop_safe that, for a row whose GET
\* reports n > 1 matches, writes (barcode, 0, "<n> items matched barcode
\* <barcode>") without stripping a record or issuing a PUT; main() runs
\* delete_location_loop, which updates the first returned record when that
\* record has an id and a non-empty permanent location.
C1_SafeLoopSkipsAmbiguous ==
  /\ (loop = SafeLoop /\ Fetched /\ got.totalRecords > 1)
     => /\ Wrote
        /\ LastRow = <<Bar, 0, ToString(got.totalRecords)
                                 \o " items matched barcode " \o Bar>>
        /\ Count("STRIP", i) = 0
        /\ Count("PUT", i) = 0
  /\ (loop = MainLoop /\ Fetched /\ got.totalRecords > 1 /\ got.items # <<>>
        /\ "id" \in FetchedRec.keys /\ HasLocation(FetchedRec)
        /\ Truthy(FetchedRec.permanentLocation))
     => /\ Count("PUT", i) = 1
        /\ put.url_id = FetchedRec.id

C1_Witness ==
  /\ loop = SafeLoop /\ Fetched /\ Wrote
  /\ got.totalRecords = 2 /\ Len(got.items) = 2
  /\ HasNamedLocation(FetchedRec)

(***************************************************************************)
(* C2                                                                      *)
(***************************************************************************)
\* C2: for a barcode with zero matching items the resolver returns count 0
\* and None, and the row loop writes (barcode, 0, "No item matching barcode
\* <barcode>") without calling the stripper or issuing a PUT.
C2_NoMatch ==
  (Fetched /\ got.totalRecords = 0)
  => /\ resolved.returned
     /\ resolved.ret_obj = PyNone
     /\ (loop = SafeLoop => resolved.n = 0)
     /\ Wrote
     /\ LastRow = <<Bar, 0, "No item matching barcode " \o Bar>>
     /\ Count("STRIP", i) = 0
     /\ Count("PUT", i) = 0

C2_Witness ==
  /\ loop = SafeLoop /\ Fetched /\ Wrote
  /\ got.totalRecords = 0 /\ got.items = <<>>
  /\ Bar = "B002"

(***************************************************************************)
(* C3                                                                      *)
(***************************************************************************)
C3_Case ==
  /\ OneRecord
  /\ HasNamedLocation(FetchedRec)
  /\ put.sent /\ put.ok /\ put.text = ""

\* C3 as stated: for a row resolving to one record with a permanent location
\* named N whose PUT returns an empty body, the output row is
\* (barcode, status code of the PUT, N).
C3_MessageIsName ==
  C3_Case
  => /\ Wrote
     /\ LastRow = <<Bar, put.status_code, FetchedRec.permanentLocation.name>>

\* C3 amended: in that case the output row is (barcode, status code of the
\* PUT, M), where M is "old location: " followed by N in delete_location_loop
\* (the loop main() runs) and the empty response body in
\* delete_location_loop_safe.
C3_MessageIsPrefixedName ==
  C3_Case
  => /\ Wrote
     /\ LastRow = <<Bar, put.status_code,
                    IF loop = MainLoop
                      THEN "old location: " \o FetchedRec.permanentLocation.name
                      ELSE "">>

C3_Witness ==
  /\ loop = MainLoop /\ C3_Case /\ Wrote
  /\ FetchedRec.permanentLocation.name = "Main Library"
  /\ put.status_code = 204

(***************************************************************************)
(* C4                                                                      *)
(***************************************************************************)
\* C4 as stated: the count returned by get_item_by_barcode_safe is the number
\* of records in the response's items, and the value is None for count 0,
\* the single record for count 1 and the sequence of count records above.
C4_CountIsPageLength ==
  (loop = SafeLoop /\ Fetched /\ resolved.returned)
  => /\ resolved.n = Len(got.items)
     /\ (resolved.n = 0 => resolved.ret_obj = PyNone)
     /\ (resolved.n = 1 => resolved.ret_obj = got.items[1])
     /\ (resolved.n > 1 => /\ resolved.ret_obj = PyList(got.items)
                           /\ Len(got.items) = resolved.n)

\* C4 amended: the count is the response's totalRecords, whatever the length
\* of the items page; the value is None for count 0, the first record of the
\* page for count 1 and the whole page for count > 1; with totalRecords = 1
\* and an empty page the call raises instead of returning.
C4_CountIsTotalRecords ==
  (loop = SafeLoop /\ Fetched)
  => IF got.totalRecords = 1 /\ got.items = <<>>
       THEN ~resolved.returned /\ pc = "raised"
       ELSE /\ resolved.returned
            /\ resolved.n = got.totalRecords
            /\ (resolved.n = 0 => resolved.ret_obj = PyNone)
            /\ (resolved.n = 1 => resolved.ret_obj = got.items[1])
            /\ (resolved.n > 1 => resolved.ret_obj = PyList(got.items))

C4_Witness ==
  /\ loop = SafeLoop /\ Fetched /\ resolved.returned
  /\ got.totalRecords > 1 /\ Len(got.items) = 1
  /\ resolved.ret_obj = PyList(got.items)

(***************************************************************************)
(* C5                                                                      *)
(***************************************************************************)
\* C5 as stated: no exception leaves the per-row body, and when the run is
\* over every input row has its output row.
C5_FailureNeverAborts ==
  /\ pc # "raised"
  /\ (pc = "done" => Len(out_csv) = Len(in_csv))

\* C5 amended: a row that cannot be read, a failed GET and a failed PUT each
\* raise out of the row loop and end the run; the failing row gets no output
\* row and no later row gets a request or an output row.  Until an exception
\* is raised every row taken from the input has its output row.
C5_FailureAborts ==
  /\ (Reached /\ in_csv[i] = <<>>) => pc = "raised"
  /\ (Reached /\ Count("GET", i) = 1 /\ ~got.ok) => pc = "raised"
  /\ (put.sent /\ ~put.ok) => pc = "raised"
  /\ pc = "raised" => /\ Reached
                      /\ Len(out_csv) = i - 1
                      /\ Count("WRITE", i) = 0
  /\ pc # "raised" => Len(out_csv) = i
  /\ \A j \in DOMAIN log : log[j][2] <= i

C5_Witness ==
  /\ pc = "raised"
  /\ i < Len(in_csv)
  /\ put.sent /\ ~put.ok
  /\ Len(out_csv) = 0

(***************************************************************************)
(* C6                                                                      *)
(***************************************************************************)
\* C6: when the loop has ended the output holds one row per input row, in
\* input order, each with the barcode of column 0 of its input row; and the
\* operations happen row after row, within a row in the order GET, strip,
\* PUT, write.
C6_Sequential ==
  /\ \A k \in 1..Len(out_csv) : out_csv[k][1] = in_csv[k][1]
  /\ pc = "done" => Len(out_csv) = Len(in_csv)
  /\ \A a, b \in DOMAIN log :
       a < b => \/ log[a][2] < log[b][2]
                \/ /\ log[a][2] = log[b][2]
                   /\ Rank(log[a][1]) < Rank(log[b][1])

C6_Witness ==
  /\ pc = "done"
  /\ Len(in_csv) = 2
  /\ in_csv[1][1] # in_csv[2][1]
  /\ Count("PUT", 1) = 1 /\ Count("PUT", 2) = 1

(***************************************************************************)
(* C7                                                                      *)
(***************************************************************************)
\* C7: the status column of an output row is 0 exactly when no PUT was
\* issued for that row, and otherwise it is the status code the PUT returned.
C7_ZeroIsNoWrite ==
  /\ \A k \in 1..Len(out_csv) : (out_csv[k][2] = 0) <=> (Count("PUT", k) = 0)
  /\ (Wrote /\ put.sent) => LastRow[2] = put.status_code

C7_Witness ==
  /\ Wrote /\ put.sent /\ put.text = ""
  /\ LastRow[2] = 500
  /\ Len(out_csv) = 2 /\ out_csv[1][2] = 0

(***************************************************************************)
(* C8                                                                      *)
(***************************************************************************)
\* C8: delete_perm_location removes the permanentLocation field and nothing
\* else; on a record without the field it returns None and leaves the record
\* as it was; a second call on the same record returns None and changes
\* nothing.
C8_StripOnlyLocation ==
  s_calls >= 1
  => /\ s_rec.keys = s_prev.keys \ {"permanentLocation"}
     /\ \A f \in OtherFields : s_rec[f] = s_prev[f]
     /\ ~HasLocation(s_prev) => (s_ret = PyNone /\ s_rec = s_prev)
     /\ s_calls >= 2 => (s_ret = PyNone /\ s_rec = s_prev)

C8_Witness ==
  /\ s_calls = 2
  /\ HasNamedLocation(s_orig)
  /\ "status" \in s_orig.keys /\ "id" \in s_orig.keys
  /\ s_ret = PyNone

(***************************************************************************)
(* C9                                                                      *)
(***************************************************************************)
\* C9: for a row resolving to exactly one record, the loop writes status 0
\* with the "no permanent location" message and issues no PUT exactly when
\* the record had no permanentLocation field; when the field was there,
\* whatever its value, exactly one PUT is issued.
C9_NoLocationIffAbsent ==
  (OneRecord /\ "id" \in FetchedRec.keys)
  => /\ (/\ Wrote
         /\ LastRow = <<Bar, 0, "Item had no permanentLocation">>
         /\ Count("PUT", i) = 0) <=> ~HasLocation(FetchedRec)
     /\ HasLocation(FetchedRec) => Count("PUT", i) = 1

(***************************************************************************)
(* C10                                                                     *)
(***************************************************************************)
\* C10: every PUT goes to /inventory/items/<id> of the record fetched by the
\* GET of the same row, its body has no permanentLocation and equals the
\* fetched record in every other field; a row with a barcode issues exactly
\* one GET, and every row at most one PUT.
C10_PutIsFetchedRecord ==
  /\ put.sent <=> (Reached /\ Count("PUT", i) = 1)
  /\ put.sent
     => /\ Fetched
        /\ got.items # <<>>
        /\ "id" \in FetchedRec.keys
        /\ put.url_id = FetchedRec.id
        /\ put.body.tag = "dict"
        /\ put.body.keys = FetchedRec.keys \ {"permanentLocation"}
        /\ \A f \in put.body.keys : put.body[f] = FetchedRec[f]
  /\ \A k \in 1..i :
       /\ Count("GET", k) = IF in_csv[k] = <<>> THEN 0 ELSE 1
       /\ Count("PUT", k) <= 1
       /\ Count("PUT", k) <= Count("GET", k)

C10_Witness ==
  /\ put.sent /\ put.ok
  /\ put.url_id = "i2"
  /\ put.body.keys = OtherFields
  /\ loop = SafeLoop

=============================================================================
